---- MODULE Spec2Model ----
(***************************************************************************)
(* Terminal-output capture of anemoi.training.diagnostics.mlflow.logger:   *)
(* the LogsMonitor class (shared buffer registry, sys.stdout/sys.stderr    *)
(* write patches, collector thread, flush routine) and its line filter.    *)
(*                                                                         *)
(* Bytes are one-character strings; a bytes object is a sequence of them.   *)
(***************************************************************************)
EXTENDS Naturals, Integers, Sequences, FiniteSets, TLC

\* ------------------------------------------------------------------ bounds
NumMonitors == 2
MaxWrites == 1
MaxWakeups == 1
MaxChunks == 3

\* --------------------------------------------------------------- constants
\* self._log_capture_interval
LogCaptureInterval == 1

\* the LogsMonitor objects the main thread holds; each stays referenced for
\* the whole run, so the weak registry drops an entry only through the del
\* in finish()
Monitors == 1 .. NumMonitors

\* the byte values the model distinguishes
SOH == "SOH"
STX == "STX"
ESC == "ESC"
CR == "CR"
LF == "LF"
Digits == {"0", "1", "2", "3", "4", "5", "6", "7", "8", "9"}
CsiLetters == {"a", "b", "c", "d", "A", "B", "C", "D"}

\* ----------------------------------------------------- bytes primitives
\* bytes slice line[i:j] with 1-based inclusive bounds
Slice(s, i, j) == IF j < i THEN << >> ELSE SubSeq(s, i, j)

\* `sub in line` for bytes
Contains(line, sub) ==
    \E i \in 1 .. (Len(line) + 1) :
        /\ i + Len(sub) - 1 <= Len(line)
        /\ Slice(line, i, i + Len(sub) - 1) = sub

Marker0Pct == <<"0", "%">>
MarkerInfo == <<"[", "I", "N", "F", "O", "]">>
MarkerDebug == <<"[", "D", "E", "B", "U", "G", "]">>

\* --------------------------------------------- ansi_csi_re and its uses
\* end (exclusive) of the greedy run of (?:\d|;)* that starts at index i
RECURSIVE ParamEnd(_, _)
ParamEnd(line, i) ==
    IF i <= Len(line) /\ (line[i] \in Digits \/ line[i] = ";")
    THEN ParamEnd(line, i + 1)
    ELSE i

\* match of \033\[((?:\d|;)*)([a-dA-D])\002? with the ESC at index e;
\* result: the index after the match, or 0 when there is no match
CsiBodyEnd(line, e) ==
    IF e + 1 <= Len(line) /\ line[e] = ESC /\ line[e + 1] = "["
    THEN LET p == ParamEnd(line, e + 2)
         IN  IF p <= Len(line) /\ line[p] \in CsiLetters
             THEN IF p + 1 <= Len(line) /\ line[p + 1] = STX THEN p + 2 ELSE p + 1
             ELSE 0
    ELSE 0

\* ansi_csi_re.match at index i: [end, arg, command], end = 0 for no match
MatchAt(line, i) ==
    LET e == IF i + 1 <= Len(line) /\ line[i] = SOH /\ CsiBodyEnd(line, i + 1) # 0
             THEN i + 1 ELSE i
        n == IF e <= Len(line) THEN CsiBodyEnd(line, e) ELSE 0
    IN  IF n = 0
        THEN [end |-> 0, start |-> 0, arg |-> << >>, command |-> ""]
        ELSE LET p == ParamEnd(line, e + 2)
             IN  [end |-> n, start |-> i, arg |-> Slice(line, e + 2, p - 1), command |-> line[p]]

\* ansi_csi_re.finditer(line): the leftmost non-overlapping matches from i on
RECURSIVE FindIter(_, _)
FindIter(line, i) ==
    IF i > Len(line) THEN << >>
    ELSE LET m == MatchAt(line, i)
         IN  IF m.end = 0 THEN FindIter(line, i + 1)
             ELSE <<m>> \o FindIter(line, m.end)

\* re.sub(ansi_csi_re, b"", line): drop the leftmost non-overlapping matches
RECURSIVE ReSub(_, _)
ReSub(line, i) ==
    IF i > Len(line) THEN << >>
    ELSE LET m == MatchAt(line, i)
         IN  IF m.end = 0 THEN <<line[i]>> \o ReSub(line, i + 1)
             ELSE ReSub(line, m.end)

_remove_csi(line) == ReSub(line, 1)

\* int(arg.decode()) raises ValueError unless arg is a run of digits
IntRaises(arg) == \E k \in 1 .. Len(arg) : arg[k] \notin Digits

\* the loop of _handle_csi over the matches of the ORIGINAL line; cur is the
\* loop's `line` variable; result [raised, line]
RECURSIVE CsiLoop(_, _, _, _)
CsiLoop(ms, k, cur, shutdown) ==
    IF k > Len(ms) THEN [raised |-> FALSE, line |-> cur]
    ELSE IF ms[k].arg # << >> /\ IntRaises(ms[k].arg)
         THEN [raised |-> TRUE, line |-> cur]
         ELSE IF /\ ms[k].command = "A"
                 /\ ~Contains(cur, Marker0Pct)
                 /\ ~shutdown
                 /\ ~Contains(cur, MarkerInfo)
                 /\ ~Contains(cur, MarkerDebug)
              THEN CsiLoop(ms, k + 1, << >>, shutdown)
              ELSE CsiLoop(ms, k + 1, cur, shutdown)

\* _handle_csi(line) with self._shutdown = shutdown; result [raised, line]
_handle_csi(line, shutdown) ==
    LET r == CsiLoop(FindIter(line, 1), 1, line, shutdown)
    IN  IF r.raised THEN [raised |-> TRUE, line |-> << >>]
        ELSE [raised |-> FALSE, line |-> _remove_csi(r.line)]

\* line.rsplit(b"\r")[-1]: the bytes after the last carriage return
RECURSIVE LastCrField(_, _)
LastCrField(line, i) ==
    IF i = 0 THEN line
    ELSE IF line[i] = CR THEN Slice(line, i + 1, Len(line))
         ELSE LastCrField(line, i - 1)

\* a split that keeps the first field: line.split(b"\r")[0]
RECURSIVE FirstCrField(_, _)
FirstCrField(line, i) ==
    IF i > Len(line) THEN line
    ELSE IF line[i] = CR THEN Slice(line, 1, i - 1)
         ELSE FirstCrField(line, i + 1)

RsplitLast_first(line) == FirstCrField(line, 1)

RsplitLast(line) == LastCrField(line, Len(line))

\* [e + b"\n" for e in data.split(b"\n") if e]
RECURSIVE SplitLines(_, _, _)
SplitLines(data, i, cur) ==
    IF i > Len(data)
    THEN IF cur = << >> THEN << >> ELSE << cur \o <<LF>> >>
    ELSE IF data[i] = LF
         THEN (IF cur = << >> THEN << >> ELSE << cur \o <<LF>> >>) \o SplitLines(data, i + 1, << >>)
         ELSE SplitLines(data, i + 1, Append(cur, data[i]))

\* -------------------------------------------------------------------- state
VARIABLES
    _started,            \* self._started, per monitor
    _shutdown,           \* self._shutdown, per monitor
    _io_buffer,          \* contents of self._io_buffer (never truncated)
    _io_pos,             \* stream position of self._io_buffer
    _log_time_interval,  \* self._log_time_interval (constructor argument)
    _buffer_registry,    \* keys of LogsMonitor._buffer_registry
    _old_out_write,      \* LogsMonitor._old_out_write
    _old_err_write,      \* LogsMonitor._old_err_write
    stdout_write,        \* sys.stdout.write
    stderr_write,        \* sys.stderr.write
    logfile,             \* contents of file_save_path, per monitor
    artifacts,           \* number of experiment.log_artifact calls, per monitor
    terminal,            \* number of writes that reached the original sinks
    th_pc,               \* position of the collector thread, per monitor
    counter,             \* log_capture_time_counter of the collector thread
    call_pc,             \* position of the start()/finish() call on a monitor
    exc,                 \* exception the last start()/finish() call raised to the main thread
    fl_pc,               \* position inside _store_buffered_logs, per monitor and caller
    fl_size,             \* its local _buffer_size
    fl_data,             \* its local data
    fl_lines,            \* its local lines, those not yet handled
    fl_text,             \* what it has written to the open log file object
    opens,               \* number of file_save_path.open("a") executions, per monitor
    nwrites,             \* number of sys.stdout/sys.stderr writes made so far
    wakeups,             \* number of time.sleep calls that have returned so far
    installs,            \* number of _install_stream_patches executions
    uninstalls,          \* number of _uninstall_stream_patches executions
    launches,            \* number of _th_collector.start() executions, per monitor
    pre_finish,          \* tags of retained lines captured before finish() was called
    fin_done,            \* finish() has returned normally, per monitor
    sep_at,              \* length of the log file when the separator was appended
    wr_pc,               \* position of a write made by another thread
    wr_call,             \* its stream and data
    wr_iter,             \* its iterator over the registry: size at creation, buffers visited
    wr_exc,              \* exception the last such write raised
    sleep_left,          \* seconds left of the collector's time.sleep call
    since_shutdown,      \* seconds a live collector has run since _shutdown was set
    late_flushes,        \* flushes the collector began after _shutdown was set
    produced,            \* bytes the wrappers wrote to the buffer, in order
    drained,             \* bytes the flushes read from the buffer, in order
    flt_pc,              \* line-filter harness: position
    flt_n,               \* line-filter harness: number of fragments of the input line
    flt_line,            \* line-filter harness: input line
    flt_shutdown,        \* line-filter harness: self._shutdown
    flt_out,             \* line-filter harness: result of the filter
    flt_again,           \* line-filter harness: result of the filter on its own output
    hc_pc,               \* health_check: position
    hc_env,              \* health_check: tracking_uri and MLFLOW_TRACKING_TOKEN
    hc_request,          \* health_check: the GET request sent
    hc_response,         \* health_check: the response received
    hc_error,            \* health_check: the exception raised
    hp_pc,               \* log_hyperparams: position of the call
    hp_flag,             \* self._flag_log_hparams
    hp_params,           \* params_list, the cleaned parameters in order
    hp_idx,              \* idx of the batching loop
    hp_batches           \* the params of the log_batch calls made, in order

progVars == <<_started, _shutdown, _io_buffer, _io_pos, _log_time_interval,
              _buffer_registry, _old_out_write, _old_err_write, stdout_write,
              stderr_write, logfile, artifacts, terminal, th_pc, counter,
              call_pc, exc, fl_pc, fl_size, fl_data, fl_lines, fl_text, opens, nwrites, wakeups,
              installs, uninstalls, launches, pre_finish, fin_done, sep_at,
              wr_pc, wr_call, wr_iter, wr_exc,
              sleep_left, since_shutdown, late_flushes, produced, drained>>
fltVars == <<flt_pc, flt_n, flt_line, flt_shutdown, flt_out, flt_again>>
hcVars == <<hc_pc, hc_env, hc_request, hc_response, hc_error>>
hpVars == <<hp_pc, hp_flag, hp_params, hp_idx, hp_batches>>
extVars == <<hcVars, hpVars>>
vars == <<progVars, fltVars, extVars>>

\* the two threads that run _store_buffered_logs on a monitor
Flushers == {"collector", "caller"}

\* default of the constructor argument log_time_interval, which
\* log_terminal_output leaves in place
DefaultLogTimeInterval == 30

\* what a write to stdout/stderr may carry: a plain line, a progress-bar
\* redraw ending in cursor-up
Kinds == {"plain", "progress"}
Tag(k) == <<"1", "2", "3", "4", "5", "6", "7", "8", "9">>[k]
Payload(k, kind) ==
    CASE kind = "plain" -> <<Tag(k), LF>>
      [] kind = "progress" -> <<Tag(k), ESC, "[", "A", LF>>

\* the state after construction with log_time_interval = interval
ProgInitWith(interval) ==
    /\ _started = [m \in Monitors |-> FALSE]
    /\ _shutdown = [m \in Monitors |-> FALSE]
    /\ _io_buffer = [m \in Monitors |-> << >>]
    /\ _io_pos = [m \in Monitors |-> 0]
    /\ _log_time_interval = interval
    /\ _buffer_registry = {}
    /\ _old_out_write = "None"
    /\ _old_err_write = "None"
    /\ stdout_write = "orig_out_write"
    /\ stderr_write = "orig_err_write"
    /\ logfile = [m \in Monitors |-> << >>]
    /\ artifacts = [m \in Monitors |-> 0]
    /\ terminal = [out |-> 0, err |-> 0]
    /\ th_pc = [m \in Monitors |-> "unstarted"]
    /\ counter = [m \in Monitors |-> 0]
    /\ call_pc = [m \in Monitors |-> "idle"]
    /\ exc = "none"
    /\ fl_pc = [m \in Monitors |-> [w \in Flushers |-> "out"]]
    /\ fl_size = [m \in Monitors |-> [w \in Flushers |-> 0]]
    /\ fl_data = [m \in Monitors |-> [w \in Flushers |-> << >>]]
    /\ fl_lines = [m \in Monitors |-> [w \in Flushers |-> << >>]]
    /\ fl_text = [m \in Monitors |-> [w \in Flushers |-> << >>]]
    /\ opens = [m \in Monitors |-> 0]
    /\ nwrites = 0
    /\ wakeups = 0
    /\ installs = 0
    /\ uninstalls = 0
    /\ launches = [m \in Monitors |-> 0]
    /\ pre_finish = [m \in Monitors |-> {}]
    /\ fin_done = [m \in Monitors |-> FALSE]
    /\ sep_at = [m \in Monitors |-> 0]
    /\ wr_pc = "idle"
    /\ wr_call = [stream |-> "none", kind |-> "none", tag |-> "", data |-> << >>]
    /\ wr_iter = [size |-> 0, seen |-> {}]
    /\ wr_exc = "none"
    /\ sleep_left = [m \in Monitors |-> 0]
    /\ since_shutdown = [m \in Monitors |-> 0]
    /\ late_flushes = [m \in Monitors |-> 0]
    /\ produced = [m \in Monitors |-> << >>]
    /\ drained = [m \in Monitors |-> << >>]

\* the state after construction with the default log_time_interval
ProgInit == ProgInitWith(DefaultLogTimeInterval)

FltIdle ==
    /\ flt_pc = "off"
    /\ flt_n = 0
    /\ flt_line = << >>
    /\ flt_shutdown = FALSE
    /\ flt_out = [raised |-> FALSE, handled |-> << >>, written |-> << >>]
    /\ flt_again = [raised |-> FALSE, handled |-> << >>, written |-> << >>]

\* no health_check call is under way
HcIdle ==
    /\ hc_pc = "off"
    /\ hc_env = [uri |-> "", token |-> "None"]
    /\ hc_request = [url |-> "", authorization |-> << >>]
    /\ hc_response = [text |-> "", status |-> 0]
    /\ hc_error = [type |-> "none", hint |-> FALSE]

\* no log_hyperparams call is under way
HpIdle ==
    /\ hp_pc = "off"
    /\ hp_flag = FALSE
    /\ hp_params = << >>
    /\ hp_idx = 0
    /\ hp_batches = << >>

ExtIdle == HcIdle /\ HpIdle

Init == ProgInit /\ FltIdle /\ ExtIdle

\* the main thread is between two calls
MainIdle == \A m \in Monitors : call_pc[m] = "idle"

\* ------------------------------------------------- stream interception
\* LogsMonitor._install_stream_patches
_install_stream_patches ==
    /\ _old_out_write' = stdout_write
    /\ _old_err_write' = stderr_write
    /\ stdout_write' = "new_out_write"
    /\ stderr_write' = "new_err_write"
    /\ installs' = installs + 1

\* LogsMonitor._uninstall_stream_patches
_uninstall_stream_patches ==
    /\ stdout_write' = _old_out_write
    /\ stderr_write' = _old_err_write
    /\ uninstalls' = uninstalls + 1

\* buffer.write(data) on a BytesIO with contents buf and position pos
BufWrite(buf, pos, data) ==
    Slice(buf, 1, pos) \o data \o Slice(buf, pos + Len(data) + 1, Len(buf))

\* buffer.read(n) on a BytesIO with contents buf and position pos
BufRead(buf, pos, n) ==
    Slice(buf, pos + 1, IF pos + n < Len(buf) THEN pos + n ELSE Len(buf))

\* the function sys.stdout.write / sys.stderr.write is bound to
SinkWrite(stream) == IF stream = "out" THEN stdout_write ELSE stderr_write
\* what new_out_write / new_err_write forward to
OldWrite(stream) == IF stream = "out" THEN _old_out_write ELSE _old_err_write
Patched(stream) == IF stream = "out" THEN "new_out_write" ELSE "new_err_write"

\* a wrapper that writes to the buffer of every monitor ever started
RegistryValues_started == {m \in Monitors : _started[m]}

\* cls._buffer_registry.values(): the buffers the wrapper writes to
RegistryValues == _buffer_registry

\* one call of sys.stdout.write(data) / sys.stderr.write(data): the original
\* sink, or new_out_write / new_err_write (forward to the old write, then fan
\* out to the registry)
WriteThrough(stream, kind) ==
    /\ LET data == Payload(nwrites + 1, kind)
           wrapped == SinkWrite(stream) = Patched(stream)
           \* cls._old_*_write bound to the wrapper itself: unbounded recursion
           recursion == wrapped /\ OldWrite(stream) = Patched(stream)
           fanout == IF wrapped /\ ~recursion THEN RegistryValues ELSE {}
       IN  /\ nwrites' = nwrites + 1
           /\ terminal' = IF recursion THEN terminal
                          ELSE [terminal EXCEPT ![stream] = @ + 1]
           /\ _io_buffer' = [m \in Monitors |->
                   IF m \in fanout THEN BufWrite(_io_buffer[m], _io_pos[m], data)
                   ELSE _io_buffer[m]]
           /\ _io_pos' = [m \in Monitors |->
                   IF m \in fanout THEN _io_pos[m] + Len(data) ELSE _io_pos[m]]
           /\ pre_finish' = [m \in Monitors |->
                   IF m \in fanout /\ kind = "plain" /\ ~_shutdown[m]
                   THEN pre_finish[m] \cup {Tag(nwrites + 1)} ELSE pre_finish[m]]
           /\ produced' = [m \in Monitors |->
                   IF m \in fanout THEN produced[m] \o data ELSE produced[m]]
    /\ UNCHANGED <<_started, _shutdown, _log_time_interval, _buffer_registry,
                   _old_out_write, _old_err_write, stdout_write,
                   stderr_write, logfile, artifacts, th_pc, counter, call_pc,
                   exc, fl_pc, fl_size, fl_data, fl_lines, fl_text, opens,
                   wakeups, installs, uninstalls, launches, fin_done, sep_at,
                   wr_pc, wr_call, wr_iter, wr_exc, sleep_left,
                   since_shutdown, late_flushes, drained, fltVars, extVars>>

\* sys.stdout.write(data) / sys.stderr.write(data) from the main thread,
\* between two start()/finish() calls
StdWrite(stream, kind) ==
    /\ MainIdle
    /\ nwrites < MaxWrites
    /\ WriteThrough(stream, kind)

\* ----------------------------------------------------------------- start()
\* start() is entered on monitor m
StartEnter(m) ==
    /\ call_pc[m] = "idle"
    /\ call_pc' = [call_pc EXCEPT ![m] = "start_guard"]
    /\ exc' = "none"
    /\ UNCHANGED <<_started, _shutdown, _io_buffer, _io_pos,
                   _log_time_interval, _buffer_registry, _old_out_write,
                   _old_err_write, stdout_write, stderr_write, logfile,
                   artifacts, terminal, th_pc, counter, fl_pc, fl_size,
                   fl_data, fl_lines, fl_text, opens, nwrites, wakeups,
                   installs, uninstalls, launches, pre_finish, fin_done,
                   sep_at, wr_pc, wr_call, wr_iter, wr_exc, sleep_left,
                   since_shutdown, late_flushes, produced, drained, fltVars,
                   extVars>>

\* a start() without its guard
AlreadyStarted_never(m) == FALSE

\* the test of `if self._started: return`
AlreadyStarted(m) == _started[m]

\* the main thread calls start() on monitor m
StartCall(m) == MainIdle /\ StartEnter(m)

\* if self._started: return; self._started = True
StartGuard(m) ==
    /\ call_pc[m] = "start_guard"
    /\ IF AlreadyStarted(m)
       THEN /\ call_pc' = [call_pc EXCEPT ![m] = "idle"]
            /\ UNCHANGED _started
       ELSE /\ _started' = [_started EXCEPT ![m] = TRUE]
            /\ call_pc' = [call_pc EXCEPT ![m] = "start_install"]
    /\ UNCHANGED <<_shutdown, _io_buffer, _io_pos, _log_time_interval,
                   _buffer_registry, _old_out_write, _old_err_write,
                   stdout_write, stderr_write, logfile, artifacts, terminal,
                   th_pc, counter, exc, fl_pc, fl_size, fl_data, fl_lines,
                   fl_text, opens, nwrites, wakeups, installs, uninstalls,
                   launches, pre_finish, fin_done, sep_at, wr_pc, wr_call,
                   wr_iter, wr_exc, sleep_left, since_shutdown, late_flushes,
                   produced, drained, fltVars, extVars>>

\* a start() that installs the patches whatever the registry holds
StartInstallGuard_always(m) == TRUE

\* the test of `if not self._buffer_registry` in start()
StartInstallGuard(m) == _buffer_registry = {}

\* if not self._buffer_registry: self._install_stream_patches()
StartInstall(m) ==
    /\ call_pc[m] = "start_install"
    /\ IF StartInstallGuard(m)
       THEN _install_stream_patches
       ELSE UNCHANGED <<_old_out_write, _old_err_write, stdout_write, stderr_write, installs>>
    /\ call_pc' = [call_pc EXCEPT ![m] = "start_register"]
    /\ UNCHANGED <<_started, _shutdown, _io_buffer, _io_pos,
                   _log_time_interval, _buffer_registry, logfile, artifacts,
                   terminal, th_pc, counter, exc, fl_pc, fl_size, fl_data,
                   fl_lines, fl_text, opens, nwrites, wakeups, uninstalls,
                   launches, pre_finish, fin_done, sep_at, wr_pc, wr_call,
                   wr_iter, wr_exc, sleep_left, since_shutdown, late_flushes,
                   produced, drained, fltVars, extVars>>

\* self._buffer_registry[id(self)] = self._io_buffer
StartRegister(m) ==
    /\ call_pc[m] = "start_register"
    /\ _buffer_registry' = _buffer_registry \cup {m}
    /\ call_pc' = [call_pc EXCEPT ![m] = "start_thread"]
    /\ UNCHANGED <<_started, _shutdown, _io_buffer, _io_pos,
                   _log_time_interval, _old_out_write, _old_err_write,
                   stdout_write, stderr_write, logfile, artifacts, terminal,
                   th_pc, counter, exc, fl_pc, fl_size, fl_data, fl_lines,
                   fl_text, opens, nwrites, wakeups, installs, uninstalls,
                   launches, pre_finish, fin_done, sep_at, wr_pc, wr_call,
                   wr_iter, wr_exc, sleep_left, since_shutdown, late_flushes,
                   produced, drained, fltVars, extVars>>

\* self._th_collector.start(), then start() returns
StartThread(m) ==
    /\ call_pc[m] = "start_thread"
    /\ th_pc' = [th_pc EXCEPT ![m] = "loop"]
    /\ launches' = [launches EXCEPT ![m] = @ + 1]
    /\ call_pc' = [call_pc EXCEPT ![m] = "idle"]
    /\ UNCHANGED <<_started, _shutdown, _io_buffer, _io_pos,
                   _log_time_interval, _buffer_registry, _old_out_write,
                   _old_err_write, stdout_write, stderr_write, logfile,
                   artifacts, terminal, counter, exc, fl_pc, fl_size,
                   fl_data, fl_lines, fl_text, opens, nwrites, wakeups,
                   installs, uninstalls, pre_finish, fin_done, sep_at, wr_pc,
                   wr_call, wr_iter, wr_exc, sleep_left, since_shutdown,
                   late_flushes, produced, drained, fltVars, extVars>>

\* ---------------------------------------------------- _store_buffered_logs
\* flusher w is inside _store_buffered_logs of monitor m at position p
InStore(m, w, p) ==
    /\ fl_pc[m][w] = p
    /\ IF w = "collector" THEN th_pc[m] = "store" ELSE call_pc[m] = "finish_store"

\* _store_buffered_logs returns to its caller: the collector loop resets its
\* counter, finish() goes on to unregister
StoreReturns(m, w) ==
    IF w = "collector"
    THEN /\ th_pc' = [th_pc EXCEPT ![m] = "loop"]
         /\ counter' = [counter EXCEPT ![m] = 0]
         /\ UNCHANGED <<call_pc, exc>>
    ELSE /\ call_pc' = [call_pc EXCEPT ![m] = "finish_unregister"]
         /\ UNCHANGED <<th_pc, counter, exc>>

\* an exception leaves _store_buffered_logs: it ends the collector thread,
\* or propagates out of finish()
StoreRaises(m, w, e) ==
    IF w = "collector"
    THEN /\ th_pc' = [th_pc EXCEPT ![m] = "dead"]
         /\ UNCHANGED <<counter, call_pc, exc>>
    ELSE /\ call_pc' = [call_pc EXCEPT ![m] = "idle"]
         /\ exc' = e
         /\ UNCHANGED <<th_pc, counter>>

\* a flush without its early return
NothingBuffered_never(size) == FALSE

\* the test of `if not _buffer_size: return`
NothingBuffered(size) == size = 0

\* _buffer_size = self._io_buffer.tell(); if not _buffer_size: return
StoreTell(m, w) ==
    /\ InStore(m, w, "tell")
    /\ IF NothingBuffered(_io_pos[m])
       THEN /\ fl_pc' = [fl_pc EXCEPT ![m][w] = "out"]
            /\ StoreReturns(m, w)
            /\ UNCHANGED fl_size
       ELSE /\ fl_size' = [fl_size EXCEPT ![m][w] = _io_pos[m]]
            /\ fl_pc' = [fl_pc EXCEPT ![m][w] = "seek"]
            /\ UNCHANGED <<th_pc, counter, call_pc, exc>>
    /\ UNCHANGED <<_started, _shutdown, _io_buffer, _io_pos,
                   _log_time_interval, _buffer_registry, _old_out_write,
                   _old_err_write, stdout_write, stderr_write, logfile,
                   artifacts, terminal, fl_data, fl_lines, fl_text, opens,
                   nwrites, wakeups, installs, uninstalls, launches,
                   pre_finish, fin_done, sep_at, wr_pc, wr_call, wr_iter,
                   wr_exc, sleep_left, since_shutdown, late_flushes,
                   produced, drained, fltVars, extVars>>

\* self._io_buffer.seek(0)
StoreSeek(m, w) ==
    /\ InStore(m, w, "seek")
    /\ _io_pos' = [_io_pos EXCEPT ![m] = 0]
    /\ fl_pc' = [fl_pc EXCEPT ![m][w] = "read"]
    /\ UNCHANGED <<_started, _shutdown, _io_buffer, _log_time_interval,
                   _buffer_registry, _old_out_write, _old_err_write,
                   stdout_write, stderr_write, logfile, artifacts, terminal,
                   th_pc, counter, call_pc, exc, fl_size, fl_data, fl_lines,
                   fl_text, opens, nwrites, wakeups, installs, uninstalls,
                   launches, pre_finish, fin_done, sep_at, wr_pc, wr_call,
                   wr_iter, wr_exc, sleep_left, since_shutdown, late_flushes,
                   produced, drained, fltVars, extVars>>

\* data = self._io_buffer.read(_buffer_size)
StoreRead(m, w) ==
    /\ InStore(m, w, "read")
    /\ LET data == BufRead(_io_buffer[m], _io_pos[m], fl_size[m][w])
       IN  /\ fl_data' = [fl_data EXCEPT ![m][w] = data]
           /\ _io_pos' = [_io_pos EXCEPT ![m] = @ + Len(data)]
           /\ drained' = [drained EXCEPT ![m] = @ \o data]
    /\ fl_pc' = [fl_pc EXCEPT ![m][w] = "reset"]
    /\ UNCHANGED <<_started, _shutdown, _io_buffer, _log_time_interval,
                   _buffer_registry, _old_out_write, _old_err_write,
                   stdout_write, stderr_write, logfile, artifacts, terminal,
                   th_pc, counter, call_pc, exc, fl_size, fl_lines, fl_text,
                   opens, nwrites, wakeups, installs, uninstalls, launches,
                   pre_finish, fin_done, sep_at, wr_pc, wr_call, wr_iter,
                   wr_exc, sleep_left, since_shutdown, late_flushes,
                   produced, fltVars, extVars>>

\* self._io_buffer.seek(0); lines = [...]; open the log file for appending
StoreReset(m, w) ==
    /\ InStore(m, w, "reset")
    /\ _io_pos' = [_io_pos EXCEPT ![m] = 0]
    /\ fl_lines' = [fl_lines EXCEPT ![m][w] = SplitLines(fl_data[m][w], 1, << >>)]
    /\ fl_data' = [fl_data EXCEPT ![m][w] = << >>]
    /\ fl_text' = [fl_text EXCEPT ![m][w] = << >>]
    /\ opens' = [opens EXCEPT ![m] = @ + 1]
    /\ fl_pc' = [fl_pc EXCEPT ![m][w] = "line"]
    /\ UNCHANGED <<_started, _shutdown, _io_buffer, _log_time_interval,
                   _buffer_registry, _old_out_write, _old_err_write,
                   stdout_write, stderr_write, logfile, artifacts, terminal,
                   th_pc, counter, call_pc, exc, fl_size, nwrites, wakeups,
                   installs, uninstalls, launches, pre_finish, fin_done,
                   sep_at, wr_pc, wr_call, wr_iter, wr_exc, sleep_left,
                   since_shutdown, late_flushes, produced, drained, fltVars,
                   extVars>>

\* one round of `for line in lines`: _handle_csi, rsplit, logfile.write; an
\* exception closes the file object, which appends what was written to it
StoreLine(m, w) ==
    /\ InStore(m, w, "line")
    /\ fl_lines[m][w] # << >>
    /\ LET h == _handle_csi(Head(fl_lines[m][w]), _shutdown[m])
       IN  IF h.raised
           THEN /\ logfile' = [logfile EXCEPT ![m] = @ \o fl_text[m][w]]
                /\ fl_lines' = [fl_lines EXCEPT ![m][w] = << >>]
                /\ fl_text' = [fl_text EXCEPT ![m][w] = << >>]
                /\ fl_pc' = [fl_pc EXCEPT ![m][w] = "out"]
                /\ StoreRaises(m, w, "ValueError")
           ELSE /\ fl_text' = [fl_text EXCEPT ![m][w] = @ \o RsplitLast(h.line)]
                /\ fl_lines' = [fl_lines EXCEPT ![m][w] = Tail(@)]
                /\ UNCHANGED <<logfile, fl_pc, th_pc, counter, call_pc, exc>>
    /\ UNCHANGED <<_started, _shutdown, _io_buffer, _io_pos,
                   _log_time_interval, _buffer_registry, _old_out_write,
                   _old_err_write, stdout_write, stderr_write, artifacts,
                   terminal, fl_size, fl_data, opens, nwrites, wakeups,
                   installs, uninstalls, launches, pre_finish, fin_done,
                   sep_at, wr_pc, wr_call, wr_iter, wr_exc, sleep_left,
                   since_shutdown, late_flushes, produced, drained, fltVars,
                   extVars>>

\* logfile.flush() and the close at the end of the with block
StoreFlush(m, w) ==
    /\ InStore(m, w, "line")
    /\ fl_lines[m][w] = << >>
    /\ logfile' = [logfile EXCEPT ![m] = @ \o fl_text[m][w]]
    /\ fl_text' = [fl_text EXCEPT ![m][w] = << >>]
    /\ fl_pc' = [fl_pc EXCEPT ![m][w] = "upload"]
    /\ UNCHANGED <<_started, _shutdown, _io_buffer, _io_pos,
                   _log_time_interval, _buffer_registry, _old_out_write,
                   _old_err_write, stdout_write, stderr_write, artifacts,
                   terminal, th_pc, counter, call_pc, exc, fl_size, fl_data,
                   fl_lines, opens, nwrites, wakeups, installs, uninstalls,
                   launches, pre_finish, fin_done, sep_at, wr_pc, wr_call,
                   wr_iter, wr_exc, sleep_left, since_shutdown, late_flushes,
                   produced, drained, fltVars, extVars>>

\* self.experiment.log_artifact(self.run_id, str(self.file_save_path))
StoreUpload(m, w) ==
    /\ InStore(m, w, "upload")
    /\ artifacts' = [artifacts EXCEPT ![m] = @ + 1]
    /\ fl_pc' = [fl_pc EXCEPT ![m][w] = "out"]
    /\ StoreReturns(m, w)
    /\ UNCHANGED <<_started, _shutdown, _io_buffer, _io_pos,
                   _log_time_interval, _buffer_registry, _old_out_write,
                   _old_err_write, stdout_write, stderr_write, logfile,
                   terminal, fl_size, fl_data, fl_lines, fl_text, opens,
                   nwrites, wakeups, installs, uninstalls, launches,
                   pre_finish, fin_done, sep_at, wr_pc, wr_call, wr_iter,
                   wr_exc, sleep_left, since_shutdown, late_flushes,
                   produced, drained, fltVars, extVars>>

\* ------------------------------------------------------------ _log_collector
\* a loop that never looks at the flag
ShutdownSeen_never(m) == FALSE

\* the test of `if self._shutdown: break`
ShutdownSeen(m) == _shutdown[m]

\* the argument of time.sleep
SleepTime == _log_time_interval

\* while True: if self._shutdown: break; then time.sleep(...) begins
CollectorLoop(m) ==
    /\ th_pc[m] = "loop"
    /\ IF ShutdownSeen(m)
       THEN /\ th_pc' = [th_pc EXCEPT ![m] = "done"]
            /\ UNCHANGED sleep_left
       ELSE /\ th_pc' = [th_pc EXCEPT ![m] = "sleep"]
            /\ sleep_left' = [sleep_left EXCEPT ![m] = SleepTime]
    /\ UNCHANGED <<_started, _shutdown, _io_buffer, _io_pos,
                   _log_time_interval, _buffer_registry, _old_out_write,
                   _old_err_write, stdout_write, stderr_write, logfile,
                   artifacts, terminal, counter, call_pc, exc, fl_pc,
                   fl_size, fl_data, fl_lines, fl_text, opens, nwrites,
                   wakeups, installs, uninstalls, launches, pre_finish,
                   fin_done, sep_at, wr_pc, wr_call, wr_iter, wr_exc,
                   since_shutdown, late_flushes, produced, drained, fltVars,
                   extVars>>

\* a test that also flushes when the counter equals the threshold
CollectorDue_inclusive(c) == c >= LogCaptureInterval

\* the counter test that decides whether this wake-up flushes
CollectorDue(c) == c > LogCaptureInterval

\* time.sleep returns: the counter update and its test
CollectorWake(m) ==
    /\ th_pc[m] = "sleep"
    /\ LET c == counter[m] + _log_time_interval
       IN  /\ counter' = [counter EXCEPT ![m] = c]
           /\ IF CollectorDue(c)
              THEN /\ th_pc' = [th_pc EXCEPT ![m] = "store"]
                   /\ fl_pc' = [fl_pc EXCEPT ![m]["collector"] = "tell"]
              ELSE /\ th_pc' = [th_pc EXCEPT ![m] = "loop"]
                   /\ UNCHANGED fl_pc
    /\ sleep_left' = [sleep_left EXCEPT ![m] = 0]
    /\ UNCHANGED <<_started, _shutdown, _io_buffer, _io_pos,
                   _log_time_interval, _buffer_registry, _old_out_write,
                   _old_err_write, stdout_write, stderr_write, logfile,
                   artifacts, terminal, call_pc, exc, fl_size, fl_data,
                   fl_lines, fl_text, opens, nwrites, installs, uninstalls,
                   launches, pre_finish, fin_done, sep_at, wr_pc, wr_call,
                   wr_iter, wr_exc, since_shutdown, produced, drained,
                   fltVars, extVars>>

\* time.sleep(self._log_time_interval) returns after any lapse of time
CollectorSleep(m) ==
    /\ wakeups < MaxWakeups
    /\ wakeups' = wakeups + 1
    /\ CollectorWake(m)
    /\ UNCHANGED late_flushes

\* ---------------------------------------------------------------- finish()
\* finish(status) is entered on monitor m
FinishEnter(m) ==
    /\ call_pc[m] = "idle"
    /\ call_pc' = [call_pc EXCEPT ![m] = "finish_guard"]
    /\ exc' = "none"
    /\ UNCHANGED <<_started, _shutdown, _io_buffer, _io_pos,
                   _log_time_interval, _buffer_registry, _old_out_write,
                   _old_err_write, stdout_write, stderr_write, logfile,
                   artifacts, terminal, th_pc, counter, fl_pc, fl_size,
                   fl_data, fl_lines, fl_text, opens, nwrites, wakeups,
                   installs, uninstalls, launches, pre_finish, fin_done,
                   sep_at, wr_pc, wr_call, wr_iter, wr_exc, sleep_left,
                   since_shutdown, late_flushes, produced, drained, fltVars,
                   extVars>>

\* the main thread calls finish(status) on monitor m
FinishCall(m) == MainIdle /\ FinishEnter(m)

\* if not self._started: return; self._shutdown = True; then the final flush
FinishGuard(m) ==
    /\ call_pc[m] = "finish_guard"
    /\ IF ~_started[m]
       THEN /\ call_pc' = [call_pc EXCEPT ![m] = "idle"]
            /\ UNCHANGED <<_shutdown, fl_pc>>
       ELSE /\ _shutdown' = [_shutdown EXCEPT ![m] = TRUE]
            /\ call_pc' = [call_pc EXCEPT ![m] = "finish_store"]
            /\ fl_pc' = [fl_pc EXCEPT ![m]["caller"] = "tell"]
    /\ UNCHANGED <<_started, _io_buffer, _io_pos, _log_time_interval,
                   _buffer_registry, _old_out_write, _old_err_write,
                   stdout_write, stderr_write, logfile, artifacts, terminal,
                   th_pc, counter, exc, fl_size, fl_data, fl_lines, fl_text,
                   opens, nwrites, wakeups, installs, uninstalls, launches,
                   pre_finish, fin_done, sep_at, wr_pc, wr_call, wr_iter,
                   wr_exc, sleep_left, since_shutdown, late_flushes,
                   produced, drained, fltVars, extVars>>

\* del self._buffer_registry[id(self)]: KeyError when the key is absent
FinishUnregister(m) ==
    /\ call_pc[m] = "finish_unregister"
    /\ IF m \in _buffer_registry
       THEN /\ _buffer_registry' = _buffer_registry \ {m}
            /\ call_pc' = [call_pc EXCEPT ![m] = "finish_uninstall"]
            /\ UNCHANGED exc
       ELSE /\ exc' = "KeyError"
            /\ call_pc' = [call_pc EXCEPT ![m] = "idle"]
            /\ UNCHANGED _buffer_registry
    /\ UNCHANGED <<_started, _shutdown, _io_buffer, _io_pos,
                   _log_time_interval, _old_out_write, _old_err_write,
                   stdout_write, stderr_write, logfile, artifacts, terminal,
                   th_pc, counter, fl_pc, fl_size, fl_data, fl_lines,
                   fl_text, opens, nwrites, wakeups, installs, uninstalls,
                   launches, pre_finish, fin_done, sep_at, wr_pc, wr_call,
                   wr_iter, wr_exc, sleep_left, since_shutdown, late_flushes,
                   produced, drained, fltVars, extVars>>

\* a finish() that uninstalls the patches whatever the registry holds
FinishUninstallGuard_always(m) == TRUE

\* the test of `if not self._buffer_registry` in finish()
FinishUninstallGuard(m) == _buffer_registry = {}

\* if not self._buffer_registry: self._uninstall_stream_patches()
FinishUninstall(m) ==
    /\ call_pc[m] = "finish_uninstall"
    /\ IF FinishUninstallGuard(m)
       THEN _uninstall_stream_patches
       ELSE UNCHANGED <<stdout_write, stderr_write, uninstalls>>
    /\ call_pc' = [call_pc EXCEPT ![m] = "finish_separator"]
    /\ UNCHANGED <<_started, _shutdown, _io_buffer, _io_pos,
                   _log_time_interval, _buffer_registry, _old_out_write,
                   _old_err_write, logfile, artifacts, terminal, th_pc,
                   counter, exc, fl_pc, fl_size, fl_data, fl_lines, fl_text,
                   opens, nwrites, wakeups, installs, launches, pre_finish,
                   fin_done, sep_at, wr_pc, wr_call, wr_iter, wr_exc,
                   sleep_left, since_shutdown, late_flushes, produced,
                   drained, fltVars, extVars>>

\* with self.file_save_path.open("a") as logfile: logfile.write("\n\n")
FinishSeparator(m) ==
    /\ call_pc[m] = "finish_separator"
    /\ logfile' = [logfile EXCEPT ![m] = @ \o <<LF, LF>>]
    /\ opens' = [opens EXCEPT ![m] = @ + 1]
    /\ sep_at' = [sep_at EXCEPT ![m] = Len(logfile[m])]
    /\ fin_done' = [fin_done EXCEPT ![m] = TRUE]
    /\ call_pc' = [call_pc EXCEPT ![m] = "idle"]
    /\ UNCHANGED <<_started, _shutdown, _io_buffer, _io_pos,
                   _log_time_interval, _buffer_registry, _old_out_write,
                   _old_err_write, stdout_write, stderr_write, artifacts,
                   terminal, th_pc, counter, exc, fl_pc, fl_size, fl_data,
                   fl_lines, fl_text, nwrites, wakeups, installs, uninstalls,
                   launches, pre_finish, wr_pc, wr_call, wr_iter, wr_exc,
                   sleep_left, since_shutdown, late_flushes, produced,
                   drained, fltVars, extVars>>

\* -------------------------------------------------------- line-filter runs
\* fragments the input lines of the filter are assembled from
Chunks ==
    { <<ESC, "[", "A">>, <<ESC, "[", "1", "A">>, <<ESC, "[", "1", ";", "1", "A">>,
      <<ESC, "[", "B">>, <<SOH, ESC, "[", "a", STX>>, <<ESC>>, <<"[", "A">>,
      Marker0Pct, MarkerInfo, MarkerDebug, <<CR>>, <<"x", CR>>, <<"x">>, <<"y">> }

FltInit ==
    /\ ProgInit
    /\ ExtIdle
    /\ flt_pc = "build"
    /\ flt_n = 0
    /\ flt_line = << >>
    /\ flt_shutdown \in BOOLEAN
    /\ flt_out = [raised |-> FALSE, handled |-> << >>, written |-> << >>]
    /\ flt_again = [raised |-> FALSE, handled |-> << >>, written |-> << >>]

\* one more fragment of the element e of data.split(b"\n")
FltAppend(c) ==
    /\ flt_pc = "build"
    /\ flt_n < MaxChunks
    /\ flt_n' = flt_n + 1
    /\ flt_line' = flt_line \o c
    /\ UNCHANGED <<flt_pc, flt_shutdown, flt_out, flt_again, progVars, extVars>>

\* the loop body of _store_buffered_logs on the line e + b"\n":
\* line = _handle_csi(line); line = line.rsplit(b"\r")[-1]
FltApply ==
    /\ flt_pc = "build"
    /\ flt_line # << >>
    /\ LET h == _handle_csi(flt_line \o <<LF>>, flt_shutdown)
       IN  flt_out' = [raised |-> h.raised, handled |-> h.line,
                       written |-> IF h.raised THEN << >> ELSE RsplitLast(h.line)]
    /\ flt_pc' = "done"
    /\ UNCHANGED <<flt_n, flt_line, flt_shutdown, flt_again, progVars, extVars>>

\* the same two steps applied to the bytes the first application wrote
FltReapply ==
    /\ flt_pc = "done"
    /\ ~flt_out.raised
    /\ LET h == _handle_csi(flt_out.written, flt_shutdown)
       IN  flt_again' = [raised |-> h.raised, handled |-> h.line,
                         written |-> IF h.raised THEN << >> ELSE RsplitLast(h.line)]
    /\ flt_pc' = "again"
    /\ UNCHANGED <<flt_n, flt_line, flt_shutdown, flt_out, progVars, extVars>>

FltNext ==
    \/ \E c \in Chunks : FltAppend(c)
    \/ FltApply
    \/ FltReapply

\* the line filter applied to every line assembled from at most MaxChunks fragments
SpecFilter == FltInit /\ [][FltNext]_vars

\* ------------------------------------------------------------- health_check
\* values of os.getenv("MLFLOW_TRACKING_TOKEN"): unset, empty, set
Tokens == {"None", "", "secret"}
TrackingUris == {"http://mlflow", "https://mlflow:5000"}
\* bodies and status codes the server may answer with
Bodies == {"OK", "ok", "OK.", "", "Unauthorized"}
Statuses == {200, 401, 500}

HcInit ==
    /\ ProgInit
    /\ FltIdle
    /\ HpIdle
    /\ hc_pc = "call"
    /\ hc_env \in [uri : TrackingUris, token : Tokens]
    /\ hc_request = [url |-> "", authorization |-> << >>]
    /\ hc_response = [text |-> "", status |-> 0]
    /\ hc_error = [type |-> "none", hint |-> FALSE]

\* token = os.getenv(...); headers = {...}; requests.get(f"{tracking_uri}/health", ...)
HealthSend ==
    /\ hc_pc = "call"
    /\ hc_request' = [url |-> <<hc_env.uri, "/health">>,
                      authorization |-> <<"Bearer", hc_env.token>>]
    /\ hc_pc' = "sent"
    /\ UNCHANGED <<hc_env, hc_response, hc_error, progVars, fltVars, hpVars>>

\* the server answers the request
HealthRespond(text, status) ==
    /\ hc_pc = "sent"
    /\ hc_response' = [text |-> text, status |-> status]
    /\ hc_pc' = "responded"
    /\ UNCHANGED <<hc_env, hc_request, hc_error, progVars, fltVars, hpVars>>

\* a test that ignores the case of the body
BodyIsOk_caseless(text) == text \in {"OK", "ok"}

\* the test of `if response.text == "OK"`
BodyIsOk(text) == text = "OK"

\* the test of `if not token`
TokenMissing(token) == token \in {"None", ""}

\* if response.text == "OK": return; else build error_msg and raise
HealthDecide ==
    /\ hc_pc = "responded"
    /\ IF BodyIsOk(hc_response.text)
       THEN /\ hc_pc' = "returned"
            /\ UNCHANGED hc_error
       ELSE /\ hc_pc' = "raised"
            /\ hc_error' = [type |-> "ConnectionError", hint |-> TokenMissing(hc_env.token)]
    /\ UNCHANGED <<hc_env, hc_request, hc_response, progVars, fltVars, hpVars>>

HcNext ==
    \/ HealthSend
    \/ \E text \in Bodies, status \in Statuses : HealthRespond(text, status)
    \/ HealthDecide

\* one health_check call for every environment and every answer
SpecHealth == HcInit /\ [][HcNext]_vars

\* ------------------------------------------------------------ specification
\* start(), finish() and the writes are issued by the main thread, one at a
\* time; the collector threads run concurrently with it and with each other
Next ==
    \/ \E m \in Monitors : StartCall(m)
    \/ \E m \in Monitors : StartGuard(m)
    \/ \E m \in Monitors : StartInstall(m)
    \/ \E m \in Monitors : StartRegister(m)
    \/ \E m \in Monitors : StartThread(m)
    \/ \E m \in Monitors : FinishCall(m)
    \/ \E m \in Monitors : FinishGuard(m)
    \/ \E m \in Monitors : FinishUnregister(m)
    \/ \E m \in Monitors : FinishUninstall(m)
    \/ \E m \in Monitors : FinishSeparator(m)
    \/ \E m \in Monitors : CollectorLoop(m)
    \/ \E m \in Monitors : CollectorSleep(m)
    \/ \E m \in Monitors, w \in Flushers : StoreTell(m, w)
    \/ \E m \in Monitors, w \in Flushers : StoreSeek(m, w)
    \/ \E m \in Monitors, w \in Flushers : StoreRead(m, w)
    \/ \E m \in Monitors, w \in Flushers : StoreReset(m, w)
    \/ \E m \in Monitors, w \in Flushers : StoreLine(m, w)
    \/ \E m \in Monitors, w \in Flushers : StoreFlush(m, w)
    \/ \E m \in Monitors, w \in Flushers : StoreUpload(m, w)
    \/ \E stream \in {"out", "err"}, kind \in Kinds : StdWrite(stream, kind)

Spec == Init /\ [][Next]_vars

\* --------------------------------------------------------- log_hyperparams
\* the length of a batch (the step of the range and the width of the slice)
\* and the largest number of cleaned parameters
BatchSize == 100
MaxParams == 250

\* one log_hyperparams call on the rank-zero process, for every setting of
\* the flag and every length of params_list
HpInit ==
    /\ ProgInit
    /\ FltIdle
    /\ HcIdle
    /\ hp_pc = "call"
    /\ hp_flag \in BOOLEAN
    /\ hp_params \in {[i \in 1 .. n |-> i] : n \in 0 .. MaxParams}
    /\ hp_idx = 0
    /\ hp_batches = << >>

\* if self._flag_log_hparams: ... params_list = [...]; the range starts at 0
HyperEnter ==
    /\ hp_pc = "call"
    /\ hp_pc' = IF hp_flag THEN "loop" ELSE "done"
    /\ hp_idx' = 0
    /\ UNCHANGED <<hp_flag, hp_params, hp_batches, progVars, fltVars, hcVars>>

\* a slice that takes one entry too many
ParamsSlice_overlap(list, idx) ==
    Slice(list, idx + 1,
          IF idx + BatchSize + 1 < Len(list) THEN idx + BatchSize + 1 ELSE Len(list))

\* params_list[idx : idx + 100], which stops at the end of the list
ParamsSlice(list, idx) ==
    Slice(list, idx + 1,
          IF idx + BatchSize < Len(list) THEN idx + BatchSize ELSE Len(list))

\* one round of `for idx in range(0, len(params_list), 100)`: log_batch
HyperBatch ==
    /\ hp_pc = "loop"
    /\ hp_idx < Len(hp_params)
    /\ hp_batches' = Append(hp_batches, ParamsSlice(hp_params, hp_idx))
    /\ hp_idx' = hp_idx + BatchSize
    /\ UNCHANGED <<hp_pc, hp_flag, hp_params, progVars, fltVars, hcVars>>

\* the range is exhausted
HyperExit ==
    /\ hp_pc = "loop"
    /\ hp_idx >= Len(hp_params)
    /\ hp_pc' = "done"
    /\ UNCHANGED <<hp_flag, hp_params, hp_idx, hp_batches, progVars, fltVars, hcVars>>

HpNext == HyperEnter \/ HyperBatch \/ HyperExit

SpecHyper == HpInit /\ [][HpNext]_vars

\* ------------------------------------------------- one monitor, with time
\* the monitor that is alone, the log_time_interval values it is built with,
\* and the number of writes made while it runs
Solo == {CHOOSE m \in Monitors : TRUE}
Intervals == {LogCaptureInterval, LogCaptureInterval + 1, DefaultLogTimeInterval}
MaxSoloWrites == 2

SoloInit ==
    /\ \E interval \in Intervals : ProgInitWith(interval)
    /\ FltIdle
    /\ ExtIdle

\* sys.stdout.write(data) / sys.stderr.write(data) from the main thread
SoloWrite(stream, kind) ==
    /\ MainIdle
    /\ nwrites < MaxSoloWrites
    /\ WriteThrough(stream, kind)

\* the collector thread takes its steps without delay except in time.sleep
CollectorAsleep(m) == th_pc[m] \in {"unstarted", "sleep", "done", "dead"}

\* one second passes: time.sleep does not return late, and the time since
\* _shutdown was set is measured up to one second past the capture threshold
Tick ==
    /\ \A m \in Monitors : CollectorAsleep(m)
    /\ \A m \in Monitors : th_pc[m] = "sleep" => sleep_left[m] > 0
    /\ \E m \in Monitors : th_pc[m] = "sleep"
    /\ sleep_left' = [m \in Monitors |->
           IF th_pc[m] = "sleep" THEN sleep_left[m] - 1 ELSE sleep_left[m]]
    /\ since_shutdown' = [m \in Monitors |->
           IF /\ _shutdown[m]
              /\ th_pc[m] = "sleep"
              /\ since_shutdown[m] <= LogCaptureInterval
           THEN since_shutdown[m] + 1 ELSE since_shutdown[m]]
    /\ UNCHANGED <<_started, _shutdown, _io_buffer, _io_pos,
                   _log_time_interval, _buffer_registry, _old_out_write,
                   _old_err_write, stdout_write, stderr_write, logfile,
                   artifacts, terminal, th_pc, counter, call_pc, exc, fl_pc,
                   fl_size, fl_data, fl_lines, fl_text, opens, nwrites,
                   wakeups, installs, uninstalls, launches, pre_finish,
                   fin_done, sep_at, wr_pc, wr_call, wr_iter, wr_exc,
                   late_flushes, produced, drained, fltVars, extVars>>

\* time.sleep(self._log_time_interval) returns when its time is up
TimedWake(m) ==
    /\ sleep_left[m] = 0
    /\ CollectorWake(m)
    /\ late_flushes' = [late_flushes EXCEPT ![m] =
           IF _shutdown[m] /\ th_pc'[m] = "store" /\ @ <= 1 THEN @ + 1 ELSE @]
    /\ UNCHANGED wakeups

SoloNext ==
    \/ \E m \in Solo : StartCall(m)
    \/ \E m \in Solo : StartGuard(m)
    \/ \E m \in Solo : StartInstall(m)
    \/ \E m \in Solo : StartRegister(m)
    \/ \E m \in Solo : StartThread(m)
    \/ \E m \in Solo : FinishCall(m)
    \/ \E m \in Solo : FinishGuard(m)
    \/ \E m \in Solo : FinishUnregister(m)
    \/ \E m \in Solo : FinishUninstall(m)
    \/ \E m \in Solo : FinishSeparator(m)
    \/ \E m \in Solo : CollectorLoop(m)
    \/ \E m \in Solo : TimedWake(m)
    \/ \E m \in Solo, w \in Flushers : StoreTell(m, w)
    \/ \E m \in Solo, w \in Flushers : StoreSeek(m, w)
    \/ \E m \in Solo, w \in Flushers : StoreRead(m, w)
    \/ \E m \in Solo, w \in Flushers : StoreReset(m, w)
    \/ \E m \in Solo, w \in Flushers : StoreLine(m, w)
    \/ \E m \in Solo, w \in Flushers : StoreFlush(m, w)
    \/ \E m \in Solo, w \in Flushers : StoreUpload(m, w)
    \/ \E stream \in {"out", "err"}, kind \in Kinds : SoloWrite(stream, kind)
    \/ Tick

SpecSolo == SoloInit /\ [][SoloNext]_vars

\* a step of the collector thread of monitor m, or of the clock its
\* time.sleep waits for: at most one of them is possible at a time
CollectorStep(m) ==
    \/ CollectorLoop(m)
    \/ TimedWake(m)
    \/ StoreTell(m, "collector")
    \/ StoreSeek(m, "collector")
    \/ StoreRead(m, "collector")
    \/ StoreReset(m, "collector")
    \/ StoreLine(m, "collector")
    \/ StoreFlush(m, "collector")
    \/ StoreUpload(m, "collector")
    \/ Tick

\* the scheduler does not starve the collector thread, and time passes
SoloFairness == \A m \in Solo : WF_vars(CollectorStep(m))

\* the steps of start(), finish() and the flush finish() makes, on monitor m
CallerStep(m) ==
    \/ StartCall(m)
    \/ StartGuard(m)
    \/ StartInstall(m)
    \/ StartRegister(m)
    \/ StartThread(m)
    \/ FinishCall(m)
    \/ FinishGuard(m)
    \/ FinishUnregister(m)
    \/ FinishUninstall(m)
    \/ FinishSeparator(m)
    \/ StoreTell(m, "caller")
    \/ StoreSeek(m, "caller")
    \/ StoreRead(m, "caller")
    \/ StoreReset(m, "caller")
    \/ StoreLine(m, "caller")
    \/ StoreFlush(m, "caller")
    \/ StoreUpload(m, "caller")

\* the writes made while the collector's termination is observed: plain lines
MaxLiveWrites == 1

LiveWrite(stream) ==
    /\ MainIdle
    /\ nwrites < MaxLiveWrites
    /\ WriteThrough(stream, "plain")

LiveNext ==
    \/ \E m \in Solo : CallerStep(m)
    \/ \E m \in Solo : CollectorStep(m)
    \/ \E stream \in {"out", "err"} : LiveWrite(stream)

SpecLive == SoloInit /\ [][LiveNext]_vars /\ SoloFairness

\* ------------------------------------------- callers on different threads
\* start() and finish() are entered on any thread, whatever the calls on the
\* other monitors are doing: nothing in the class serialises them
ThreadStart(m) == StartEnter(m)

ThreadFinish(m) == FinishEnter(m)

\* a thread calls sys.stdout.write(data) / sys.stderr.write(data): the
\* attribute is looked up at the call; the original sink writes and returns,
\* the wrapper starts with its forwarding call
WriterCall(stream, kind) ==
    /\ wr_pc = "idle"
    /\ nwrites < MaxWrites
    /\ nwrites' = nwrites + 1
    /\ wr_call' = [stream |-> stream, kind |-> kind, tag |-> Tag(nwrites + 1),
                   data |-> Payload(nwrites + 1, kind)]
    /\ wr_exc' = "none"
    /\ IF SinkWrite(stream) = Patched(stream)
       THEN wr_pc' = "forward" /\ UNCHANGED terminal
       ELSE wr_pc' = "idle" /\ terminal' = [terminal EXCEPT ![stream] = @ + 1]
    /\ UNCHANGED <<_started, _shutdown, _io_buffer, _io_pos,
                   _log_time_interval, _buffer_registry, _old_out_write,
                   _old_err_write, stdout_write, stderr_write, logfile,
                   artifacts, th_pc, counter, call_pc, exc, fl_pc, fl_size,
                   fl_data, fl_lines, fl_text, opens, wakeups, installs,
                   uninstalls, launches, pre_finish, fin_done, sep_at,
                   wr_iter, sleep_left, since_shutdown, late_flushes,
                   produced, drained, fltVars, extVars>>

\* cls._old_out_write(data) / cls._old_err_write(data), read when the wrapper
\* runs; bound to the wrapper itself the call never returns normally. Then
\* the for statement creates the iterator over cls._buffer_registry.values()
WriterForward ==
    /\ wr_pc = "forward"
    /\ IF OldWrite(wr_call.stream) = Patched(wr_call.stream)
       THEN /\ wr_pc' = "idle"
            /\ wr_exc' = "RecursionError"
            /\ UNCHANGED <<terminal, wr_iter>>
       ELSE /\ wr_pc' = "iterate"
            /\ terminal' = [terminal EXCEPT ![wr_call.stream] = @ + 1]
            /\ wr_iter' = [size |-> Cardinality(_buffer_registry), seen |-> {}]
            /\ UNCHANGED wr_exc
    /\ UNCHANGED <<_started, _shutdown, _io_buffer, _io_pos,
                   _log_time_interval, _buffer_registry, _old_out_write,
                   _old_err_write, stdout_write, stderr_write, logfile,
                   artifacts, th_pc, counter, call_pc, exc, fl_pc, fl_size,
                   fl_data, fl_lines, fl_text, opens, nwrites, wakeups,
                   installs, uninstalls, launches, pre_finish, fin_done,
                   sep_at, wr_call, sleep_left, since_shutdown, late_flushes,
                   produced, drained, fltVars, extVars>>

\* the dictionary iterator raises at the next step when the dictionary no
\* longer has the size it had when the iterator was created
RegistryResized == Cardinality(_buffer_registry) # wr_iter.size

\* one step of  for buffer in cls._buffer_registry.values(): buffer.write(data)
WriterIterate ==
    /\ wr_pc = "iterate"
    /\ IF RegistryResized
       THEN /\ wr_pc' = "idle"
            /\ wr_exc' = "RuntimeError"
            /\ UNCHANGED <<_io_buffer, _io_pos, pre_finish, wr_iter, produced>>
       ELSE IF RegistryValues \ wr_iter.seen = {}
       THEN /\ wr_pc' = "idle"
            /\ UNCHANGED <<_io_buffer, _io_pos, pre_finish, wr_iter, wr_exc,
                           produced>>
       ELSE \E m \in RegistryValues \ wr_iter.seen :
            /\ _io_buffer' = [_io_buffer EXCEPT
                   ![m] = BufWrite(_io_buffer[m], _io_pos[m], wr_call.data)]
            /\ _io_pos' = [_io_pos EXCEPT ![m] = @ + Len(wr_call.data)]
            /\ pre_finish' = [pre_finish EXCEPT ![m] =
                   IF wr_call.kind = "plain" /\ ~_shutdown[m]
                   THEN @ \cup {wr_call.tag} ELSE @]
            /\ produced' = [produced EXCEPT ![m] = @ \o wr_call.data]
            /\ wr_iter' = [wr_iter EXCEPT !.seen = @ \cup {m}]
            /\ UNCHANGED <<wr_pc, wr_exc>>
    /\ UNCHANGED <<_started, _shutdown, _log_time_interval, _buffer_registry,
                   _old_out_write, _old_err_write, stdout_write,
                   stderr_write, logfile, artifacts, terminal, th_pc,
                   counter, call_pc, exc, fl_pc, fl_size, fl_data, fl_lines,
                   fl_text, opens, nwrites, wakeups, installs, uninstalls,
                   launches, fin_done, sep_at, wr_call, sleep_left,
                   since_shutdown, late_flushes, drained, fltVars, extVars>>

ConcNext ==
    \/ \E m \in Monitors : ThreadStart(m)
    \/ \E m \in Monitors : StartGuard(m)
    \/ \E m \in Monitors : StartInstall(m)
    \/ \E m \in Monitors : StartRegister(m)
    \/ \E m \in Monitors : StartThread(m)
    \/ \E m \in Monitors : ThreadFinish(m)
    \/ \E m \in Monitors : FinishGuard(m)
    \/ \E m \in Monitors : FinishUnregister(m)
    \/ \E m \in Monitors : FinishUninstall(m)
    \/ \E m \in Monitors : FinishSeparator(m)
    \/ \E m \in Monitors : CollectorLoop(m)
    \/ \E m \in Monitors, w \in Flushers : StoreTell(m, w)
    \/ \E m \in Monitors, w \in Flushers : StoreSeek(m, w)
    \/ \E m \in Monitors, w \in Flushers : StoreRead(m, w)
    \/ \E m \in Monitors, w \in Flushers : StoreReset(m, w)
    \/ \E m \in Monitors, w \in Flushers : StoreLine(m, w)
    \/ \E m \in Monitors, w \in Flushers : StoreFlush(m, w)
    \/ \E m \in Monitors, w \in Flushers : StoreUpload(m, w)
    \/ \E stream \in {"out", "err"}, kind \in Kinds : WriterCall(stream, kind)
    \/ WriterForward
    \/ WriterIterate

SpecConc == Init /\ [][ConcNext]_vars

\* ------------------------------------------------------------------ claims
\* C1: whenever no start()/finish() call is in progress, sys.stdout.write and
\* sys.stderr.write are the wrappers if the registry holds a buffer and the
\* original functions if it holds none; so the finish() that removes the
\* last buffer leaves the original functions in place.
C1_RegistryInvariant ==
    MainIdle =>
        /\ _buffer_registry # {} =>
               stdout_write = "new_out_write" /\ stderr_write = "new_err_write"
        /\ _buffer_registry = {} =>
               stdout_write = "orig_out_write" /\ stderr_write = "orig_err_write"

\* every monitor was started, they shared one install, and the last finish()
\* has emptied the registry
C1_Witness ==
    /\ MainIdle
    /\ \A m \in Monitors : fin_done[m]
    /\ _buffer_registry = {}
    /\ installs = 1
    /\ uninstalls = 1

\* C2: while the registry stays non-empty the patches are installed exactly
\* once, whatever the number of started monitors, and the captured
\* _old_out_write/_old_err_write are never the wrappers.
C2_SingleInstall ==
    /\ _old_out_write \in {"None", "orig_out_write"}
    /\ _old_err_write \in {"None", "orig_err_write"}
    /\ installs \in {uninstalls, uninstalls + 1}
    /\ _buffer_registry # {} => installs = uninstalls + 1

\* all the monitors are registered at once, after a single install
C2_Witness ==
    /\ _buffer_registry = Monitors
    /\ installs = 1
    /\ _old_out_write = "orig_out_write"
    /\ _old_err_write = "orig_err_write"

\* C3: a finish() call on a monitor that was started and has already been
\* finished raises no error.
C3_SecondFinishNoError ==
    [][\A m \in Monitors :
          (fin_done[m] /\ call_pc[m] \notin {"idle", "start_guard"}) => exc' = "none"]_vars

\* C4: start() on a monitor whose start() was called before returns at its
\* guard and changes neither the registry, nor the patches, nor the collector
\* thread; hence a monitor launches at most one collector thread and is not
\* registered again once finish() has returned.
C4_StartOnce ==
    /\ [](\A m \in Monitors : launches[m] <= 1 /\ (fin_done[m] => m \notin _buffer_registry))
    /\ [][\A m \in Monitors :
             (call_pc[m] = "start_guard" /\ _started[m] /\ call_pc'[m] # call_pc[m]) =>
                 /\ call_pc'[m] = "idle"
                 /\ UNCHANGED <<_buffer_registry, stdout_write, stderr_write,
                                _old_out_write, _old_err_write, th_pc, launches>>]_vars

\* start() has been called on a monitor that finish() has already returned on
C4_Witness ==
    \E m \in Monitors : fin_done[m] /\ call_pc[m] = "start_guard" /\ launches[m] = 1

\* the line <<t, LF>> lies in the first n bytes of text
LineWithin(text, t, n) ==
    \E i \in 1 .. n : i + 1 <= n /\ text[i] = t /\ text[i + 1] = LF

\* C5: once finish() has returned, every retained line that was captured
\* before finish() was called is in the log file, ahead of the separator.
C5_FinalFlushComplete ==
    \A m \in Monitors :
        fin_done[m] => \A t \in pre_finish[m] : LineWithin(logfile[m], t, sep_at[m])

\* C6: once finish() has returned, the log file ends with the separator that
\* finish() appended, and nothing follows it.
C6_SeparatorStaysLast ==
    \A m \in Monitors :
        fin_done[m] =>
            /\ Len(logfile[m]) = sep_at[m] + 2
            /\ logfile[m][Len(logfile[m])] = LF
            /\ logfile[m][Len(logfile[m]) - 1] = LF

\* C7: a _store_buffered_logs that finds the buffer position at zero returns
\* at once: the log file is neither opened nor written and log_artifact is
\* not called.
C7_EmptyFlushNoop ==
    [][\A m \in Monitors, w \in Flushers :
          (InStore(m, w, "tell") /\ _io_pos[m] = 0 /\ fl_pc'[m][w] # "tell") =>
              /\ fl_pc'[m][w] = "out"
              /\ UNCHANGED <<logfile, opens, artifacts, _io_buffer, _io_pos>>]_vars

\* the collector woke up, found nothing buffered and went back to its loop
C7_Witness ==
    \E m \in Monitors :
        /\ wakeups = 1
        /\ th_pc[m] = "loop"
        /\ counter[m] = 0
        /\ fl_pc[m]["collector"] = "out"
        /\ opens[m] = 0
        /\ artifacts[m] = 0

\* C8: a write made while the patches are installed reaches the original
\* sink once, and its bytes are appended to the buffer of every registered
\* monitor and to no other buffer.
C8_ForwardAndFanOut ==
    [][(nwrites' # nwrites /\ stdout_write = "new_out_write" /\ stderr_write = "new_err_write") =>
          /\ terminal'.out + terminal'.err = terminal.out + terminal.err + 1
          /\ \E kind \in Kinds :
                LET data == Payload(nwrites', kind)
                IN  \A m \in Monitors :
                        IF m \in _buffer_registry
                        THEN /\ _io_pos'[m] = _io_pos[m] + Len(data)
                             /\ Slice(_io_buffer'[m], _io_pos[m] + 1, _io_pos'[m]) = data
                             /\ Slice(_io_buffer'[m], 1, _io_pos[m]) = Slice(_io_buffer[m], 1, _io_pos[m])
                        ELSE _io_pos'[m] = _io_pos[m] /\ _io_buffer'[m] = _io_buffer[m]]_vars

\* one write reached the terminal and the buffer of a registered monitor, and
\* left alone the buffer of a monitor that had been finished before
C8_Witness ==
    \E m \in Monitors, o \in Monitors :
        /\ m \in _buffer_registry
        /\ _io_pos[m] > 0
        /\ fin_done[o]
        /\ _io_buffer[o] = << >>
        /\ nwrites = 1
        /\ terminal.out + terminal.err = 1

\* the line contains a cursor-up sequence ESC [ params A
HasCursorUp(line) ==
    \E i \in 1 .. Len(line), j \in 1 .. Len(line) :
        /\ i + 2 <= j
        /\ line[i] = ESC
        /\ line[i + 1] = "["
        /\ \A k \in (i + 2) .. (j - 1) : line[k] \in Digits \cup {";"}
        /\ line[j] = "A"

\* the bytes of line from index i on that lie in no control sequence of ms
RECURSIVE OutsideSpans(_, _, _)
OutsideSpans(line, ms, i) ==
    IF i > Len(line) THEN << >>
    ELSE IF \E k \in 1 .. Len(ms) : ms[k].start <= i /\ i < ms[k].end
         THEN OutsideSpans(line, ms, i + 1)
         ELSE <<line[i]>> \o OutsideSpans(line, ms, i + 1)

\* the line handed to the filter in a line-filter run
FltInput == flt_line \o <<LF>>

\* C9: a line with a cursor-up sequence and without "0%", "[INFO]" and
\* "[DEBUG]" comes out of _handle_csi empty when the monitor is not shutting
\* down, and with its control-sequence bytes removed and the other bytes kept
\* when it is shutting down.
C9_ProgressCollapse ==
    (/\ flt_pc = "done"
     /\ HasCursorUp(FltInput)
     /\ ~Contains(FltInput, Marker0Pct)
     /\ ~Contains(FltInput, MarkerInfo)
     /\ ~Contains(FltInput, MarkerDebug)) =>
        /\ ~flt_out.raised
        /\ flt_out.handled = IF flt_shutdown THEN OutsideSpans(FltInput, FindIter(FltInput, 1), 1)
                             ELSE << >>

\* C10: what is written for a line is free of carriage returns and is the
\* part after the last carriage return of the line as _handle_csi returned
\* it, suppressed or not; for a line that was not suppressed that is the
\* part after the last carriage return of the raw line, control sequences
\* removed.
C10_CarriageReturn ==
    (flt_pc = "done" /\ ~flt_out.raised) =>
        LET h == flt_out.handled
            w == flt_out.written
            HasCr(l) == \E i \in 1 .. Len(l) : l[i] = CR
            IsLastCr(l, i) == l[i] = CR /\ \A j \in (i + 1) .. Len(l) : l[j] # CR
        IN  /\ ~HasCr(w)
            /\ IF HasCr(h)
               THEN \E i \in 1 .. Len(h) : IsLastCr(h, i) /\ w = Slice(h, i + 1, Len(h))
               ELSE w = h
            /\ (HasCr(FltInput) /\ h # << >>) =>
                   \E i \in 1 .. Len(FltInput) :
                       /\ IsLastCr(FltInput, i)
                       /\ w = _remove_csi(Slice(FltInput, i + 1, Len(FltInput)))

\* the filter has turned "x\rx\ry" into "y"
C10_Witness ==
    /\ flt_pc = "done"
    /\ flt_line = <<"x", CR, "x", CR, "y">>
    /\ flt_out.written = <<"y", LF>>

\* C11: on a line without SOH/STX framing, the filter (_handle_csi, then
\* the carriage-return split) applied to the bytes it wrote gives those bytes
\* again, and those bytes hold no control sequence.
C11_FilterIdempotent ==
    (/\ flt_pc = "again"
     /\ \A i \in 1 .. Len(flt_line) : flt_line[i] \notin {SOH, STX}) =>
        /\ ~flt_again.raised
        /\ flt_again.written = flt_out.written
        /\ FindIter(flt_out.written, 1) = << >>

\* C12: health_check returns exactly when the body of the response to
\* GET <tracking_uri>/health is "OK", whatever the status code; otherwise it
\* raises ConnectionError, whose message carries the authentication hint
\* exactly when the token is unset or empty.
C12_HealthCheck ==
    hc_pc \in {"returned", "raised"} =>
        /\ hc_request.url = <<hc_env.uri, "/health">>
        /\ hc_pc = "returned" <=> hc_response.text = "OK"
        /\ hc_pc = "returned" => hc_error.type = "none"
        /\ hc_pc = "raised" =>
               /\ hc_error.type = "ConnectionError"
               /\ hc_error.hint <=> hc_env.token \in {"None", ""}

\* a body that differs from "OK" only in case, without a token: raised, with the hint
C12_Witness ==
    /\ hc_pc = "raised"
    /\ hc_response.text = "ok"
    /\ hc_response.status = 200
    /\ hc_env.token = "None"
    /\ hc_error.hint

\* C13: with start() and finish() of different monitors running on different
\* threads, installing and uninstalling the patches exclude each other: the
\* patches are never installed over themselves (the saved originals are never
\* the wrappers) and are in place whenever some monitor is registered.
C13_ExclusiveTransitions ==
    /\ _old_out_write # "new_out_write"
    /\ _old_err_write # "new_err_write"
    /\ _buffer_registry # {} =>
           stdout_write = "new_out_write" /\ stderr_write = "new_err_write"

\* C14: a write through the wrapper never raises because the registry
\* changed while the wrapper was iterating over it.
C14_WriteNeverRaises == wr_exc # "RuntimeError"

\* the number of positions of text that hold the byte t
Occurrences(text, t) == Cardinality({i \in 1 .. Len(text) : text[i] = t})

\* C15: each buffer has one consumer at a time: the flush made by finish()
\* and the flush made by the collector thread are never both inside
\* _store_buffered_logs on the same monitor, and no captured byte is written
\* to the log file twice.
C15_SingleConsumer ==
    \A m \in Monitors :
        /\ ~(th_pc[m] = "store" /\ call_pc[m] = "finish_store")
        /\ \A k \in 1 .. MaxWrites : Occurrences(logfile[m], Tag(k)) <= 1

\* a is an initial part of b
IsPrefix(a, b) == Len(a) <= Len(b) /\ \A i \in 1 .. Len(a) : a[i] = b[i]

\* C16: whatever the interleaving of the wrappers' writes with the steps of
\* a flush, the bytes the flushes have drained are the bytes the wrappers
\* wrote, in order: never a byte that was not written next, and all of them
\* once no flush is under way and the buffer is back at position zero.
C16_BufferIntact ==
    \A m \in Monitors :
        /\ IsPrefix(drained[m], produced[m])
        /\ (/\ th_pc[m] # "store"
            /\ call_pc[m] # "finish_store"
            /\ _io_pos[m] = 0) => drained[m] = produced[m]

\* C17: once finish() has set the shutdown flag, the collector thread stops
\* within one capture interval (1 second), whatever the flush interval: it
\* is never still running more than that long after the flag was set.
C17_ShutdownLatency ==
    \A m \in Monitors : since_shutdown[m] <= LogCaptureInterval

\* C18: once finish() has set the shutdown flag, the collector thread, fairly
\* scheduled and with flushes that do not fail, eventually sees the flag and
\* leaves its loop; it begins at most one flush after the flag was set.
C18_CooperativeShutdown ==
    /\ \A m \in Solo : _shutdown[m] ~> th_pc[m] = "done"
    /\ [](\A m \in Monitors : late_flushes[m] <= 1)

\* the thread has left its loop after a flush that began with the flag set
C18_Witness ==
    \E m \in Monitors : _shutdown[m] /\ th_pc[m] = "done" /\ late_flushes[m] = 1

\* C19: each round of the collector loop sleeps for the configured flush
\* interval and adds it to the counter; the round flushes, and the counter
\* goes back to zero, exactly when the counter then exceeds the capture
\* threshold (1 second): every wake-up flushes with an interval above the
\* threshold, every second wake-up with an interval of exactly 1 second.
C19_FlushCadence ==
    [][\A m \in Monitors :
        /\ (th_pc[m] = "loop" /\ th_pc'[m] = "sleep") =>
               sleep_left'[m] = _log_time_interval
        /\ (th_pc[m] = "sleep" /\ th_pc'[m] # "sleep") =>
               /\ sleep_left[m] = 0
               /\ counter'[m] = counter[m] + _log_time_interval
               /\ th_pc'[m] \in {"store", "loop"}
               /\ th_pc'[m] = "store" <=> counter'[m] > LogCaptureInterval
               /\ _log_time_interval > LogCaptureInterval => th_pc'[m] = "store"
               /\ _log_time_interval = LogCaptureInterval =>
                      (th_pc'[m] = "store" <=> counter[m] = LogCaptureInterval)
        /\ (th_pc[m] = "store" /\ th_pc'[m] = "loop") => counter'[m] = 0
        /\ counter'[m] # counter[m] =>
               \/ th_pc[m] = "sleep" /\ th_pc'[m] # "sleep"
               \/ th_pc[m] = "store" /\ th_pc'[m] = "loop"
      ]_vars

\* with an interval of 1 second the collector is in the flush of its second
\* wake-up
C19_Witness ==
    \E m \in Monitors :
        /\ _log_time_interval = LogCaptureInterval
        /\ th_pc[m] = "store"
        /\ counter[m] = LogCaptureInterval + LogCaptureInterval

\* the batches put end to end
RECURSIVE Concat(_)
Concat(batches) ==
    IF batches = << >> THEN << >> ELSE Head(batches) \o Concat(Tail(batches))

\* C20: a finished log_hyperparams call with logging enabled has sent
\* params_list through log_batch in ceil(n / 100) batches of 1 to 100
\* entries which, end to end, are the list itself (every parameter once, in
\* order; no call for an empty list); with logging disabled it has made no
\* log_batch call; no batch ever has more than 100 entries.
C20_HyperparamBatches ==
    /\ \A k \in 1 .. Len(hp_batches) :
           Len(hp_batches[k]) >= 1 /\ Len(hp_batches[k]) <= BatchSize
    /\ hp_pc = "done" =>
           IF hp_flag
           THEN /\ Len(hp_batches) = (Len(hp_params) + BatchSize - 1) \div BatchSize
                /\ Concat(hp_batches) = hp_params
           ELSE hp_batches = << >>

\* a finished call that needed a last batch shorter than the others
C20_Witness ==
    /\ hp_pc = "done"
    /\ hp_flag
    /\ Len(hp_batches) > 2
    /\ Len(hp_batches[Len(hp_batches)]) < BatchSize

====
